---------------------------- MODULE Spec2Model ----------------------------
(***************************************************************************)
(* State-machine model of the InstaxFilter React component.                *)
(*                                                                         *)
(* The repository holds two variants of the component:                     *)
(*   "full"  : src/unnamed/part_002  (upload, caption, date, format and    *)
(*             the html2canvas export, captureFrame)                       *)
(*   "basic" : src/src/app/page.js   (the same handlers, no export)        *)
(* The variable `variant` says which of the two is mounted.                *)
(*                                                                         *)
(* The JavaScript strings the code inspects unit by unit (the MIME type    *)
(* and the file name) are sequences of UTF-16 code units, the caption is a *)
(* sequence of one-character strings.  Messages and labels that are only   *)
(* stored and shown are TLA+ strings.                                      *)
(***************************************************************************)
EXTENDS Integers, Sequences, FiniteSets, TLC

VARIABLES
    variant,        \* which source variant of the component is mounted
    timeZone,       \* the environment's time zone, by its name
    selectedImage,  \* useState(null): NULL or the data URL of the loaded image
    error,          \* useState(''): the message shown in the error box
    format,         \* useState('mini'): "mini" or "wide"
    photoText,      \* useState(''): the caption, a sequence of characters
    photoDate,      \* useState(''): the formatted date string
    readers,        \* every FileReader created so far, in creation order
    exports,        \* the captureFrame calls awaiting html2canvas
    downloads,      \* the file names handed to link.click(), in order
    dom             \* what the last render committed

vars == << variant, timeZone, selectedImage, error, format, photoText,
           photoDate, readers, exports, downloads, dom >>

(***************************************************************************)
(* Bounds of the model                                                     *)
(***************************************************************************)
\* FileReaders created in one behaviour
MaxUploads == 2
\* captureFrame calls started and not failed in one behaviour
MaxExports == 2
\* longest caption candidate typed into the text input
MaxCandidateLen == 52

(***************************************************************************)
(* Values                                                                  *)
(***************************************************************************)
\* JavaScript null (useState(null), FileReader.result after an error)
NULL == [js |-> "null"]

\* event.target.files[0] when the picker was dismissed without a file
NoFile == [js |-> "undefined"]

Variants == {"full", "basic"}

Formats == {"mini", "wide"}

\* the distinct file contents offered to the upload input
FileContents == {1, 2}

\* Sample values of Date.now() while a capture settles: milliseconds since
\* the epoch, as the decimal text the template literal of the file name
\* turns them into (13 digits, beyond 32-bit integers).  The wall clock may
\* stand still or be set back between two captures, so every capture draws
\* any of the values.
ClockValues == {"1793280091999", "1793280092000"}

\* the messages of the three setError calls of handleImageUpload
MsgUnsupported == "Please upload an image file (including .heic)."

MsgReadFailed == "Failed to read the image file."

MsgProcessFailed == "Failed to process the image."

\* the message of captureFrame's catch
MsgSaveFailed == "Failed to save image"

(***************************************************************************)
(* String helpers: String.prototype.startsWith / endsWith / toLowerCase    *)
(*                                                                         *)
(* A string is the sequence of its UTF-16 code units.  toLowerCase maps    *)
(* code points: a surrogate pair is one code point, and the result is      *)
(* written back as code units.                                             *)
(***************************************************************************)
\* The lower-case mappings of the Unicode Character Database that map one
\* code point to one code point, as << first, last, step, delta >>: each of
\* first, first + step, .., last maps to itself plus delta.
LowerCaseRanges ==
    << <<65, 90, 1, 32>>, <<192, 214, 1, 32>>, <<216, 222, 1, 32>>, <<256, 302, 2, 1>>,
    <<306, 310, 2, 1>>, <<313, 327, 2, 1>>, <<330, 374, 2, 1>>, <<376, 376, 1, -121>>,
    <<377, 381, 2, 1>>, <<385, 385, 1, 210>>, <<386, 388, 2, 1>>, <<390, 390, 1, 206>>,
    <<391, 391, 1, 1>>, <<393, 394, 1, 205>>, <<395, 395, 1, 1>>, <<398, 398, 1, 79>>,
    <<399, 399, 1, 202>>, <<400, 400, 1, 203>>, <<401, 401, 1, 1>>, <<403, 403, 1, 205>>,
    <<404, 404, 1, 207>>, <<406, 406, 1, 211>>, <<407, 407, 1, 209>>, <<408, 408, 1, 1>>,
    <<412, 412, 1, 211>>, <<413, 413, 1, 213>>, <<415, 415, 1, 214>>, <<416, 420, 2, 1>>,
    <<422, 422, 1, 218>>, <<423, 423, 1, 1>>, <<425, 425, 1, 218>>, <<428, 428, 1, 1>>,
    <<430, 430, 1, 218>>, <<431, 431, 1, 1>>, <<433, 434, 1, 217>>, <<435, 437, 2, 1>>,
    <<439, 439, 1, 219>>, <<440, 440, 1, 1>>, <<444, 444, 1, 1>>, <<452, 452, 1, 2>>,
    <<453, 453, 1, 1>>, <<455, 455, 1, 2>>, <<456, 456, 1, 1>>, <<458, 458, 1, 2>>,
    <<459, 475, 2, 1>>, <<478, 494, 2, 1>>, <<497, 497, 1, 2>>, <<498, 500, 2, 1>>,
    <<502, 502, 1, -97>>, <<503, 503, 1, -56>>, <<504, 542, 2, 1>>, <<544, 544, 1, -130>>,
    <<546, 562, 2, 1>>, <<570, 570, 1, 10795>>, <<571, 571, 1, 1>>, <<573, 573, 1, -163>>,
    <<574, 574, 1, 10792>>, <<577, 577, 1, 1>>, <<579, 579, 1, -195>>, <<580, 580, 1, 69>>,
    <<581, 581, 1, 71>>, <<582, 590, 2, 1>>, <<880, 882, 2, 1>>, <<886, 886, 1, 1>>,
    <<895, 895, 1, 116>>, <<902, 902, 1, 38>>, <<904, 906, 1, 37>>, <<908, 908, 1, 64>>,
    <<910, 911, 1, 63>>, <<913, 929, 1, 32>>, <<931, 939, 1, 32>>, <<975, 975, 1, 8>>,
    <<984, 1006, 2, 1>>, <<1012, 1012, 1, -60>>, <<1015, 1015, 1, 1>>, <<1017, 1017, 1, -7>>,
    <<1018, 1018, 1, 1>>, <<1021, 1023, 1, -130>>, <<1024, 1039, 1, 80>>, <<1040, 1071, 1, 32>>,
    <<1120, 1152, 2, 1>>, <<1162, 1214, 2, 1>>, <<1216, 1216, 1, 15>>, <<1217, 1229, 2, 1>>,
    <<1232, 1326, 2, 1>>, <<1329, 1366, 1, 48>>, <<4256, 4293, 1, 7264>>, <<4295, 4295, 1, 7264>>,
    <<4301, 4301, 1, 7264>>, <<5024, 5103, 1, 38864>>, <<5104, 5109, 1, 8>>, <<7305, 7305, 1, 1>>,
    <<7312, 7354, 1, -3008>>, <<7357, 7359, 1, -3008>>, <<7680, 7828, 2, 1>>, <<7838, 7838, 1, -7615>>,
    <<7840, 7934, 2, 1>>, <<7944, 7951, 1, -8>>, <<7960, 7965, 1, -8>>, <<7976, 7983, 1, -8>>,
    <<7992, 7999, 1, -8>>, <<8008, 8013, 1, -8>>, <<8025, 8031, 2, -8>>, <<8040, 8047, 1, -8>>,
    <<8072, 8079, 1, -8>>, <<8088, 8095, 1, -8>>, <<8104, 8111, 1, -8>>, <<8120, 8121, 1, -8>>,
    <<8122, 8123, 1, -74>>, <<8124, 8124, 1, -9>>, <<8136, 8139, 1, -86>>, <<8140, 8140, 1, -9>>,
    <<8152, 8153, 1, -8>>, <<8154, 8155, 1, -100>>, <<8168, 8169, 1, -8>>, <<8170, 8171, 1, -112>>,
    <<8172, 8172, 1, -7>>, <<8184, 8185, 1, -128>>, <<8186, 8187, 1, -126>>, <<8188, 8188, 1, -9>>,
    <<8486, 8486, 1, -7517>>, <<8490, 8490, 1, -8383>>, <<8491, 8491, 1, -8262>>, <<8498, 8498, 1, 28>>,
    <<8544, 8559, 1, 16>>, <<8579, 8579, 1, 1>>, <<9398, 9423, 1, 26>>, <<11264, 11311, 1, 48>>,
    <<11360, 11360, 1, 1>>, <<11362, 11362, 1, -10743>>, <<11363, 11363, 1, -3814>>, <<11364, 11364, 1, -10727>>,
    <<11367, 11371, 2, 1>>, <<11373, 11373, 1, -10780>>, <<11374, 11374, 1, -10749>>, <<11375, 11375, 1, -10783>>,
    <<11376, 11376, 1, -10782>>, <<11378, 11378, 1, 1>>, <<11381, 11381, 1, 1>>, <<11390, 11391, 1, -10815>>,
    <<11392, 11490, 2, 1>>, <<11499, 11501, 2, 1>>, <<11506, 11506, 1, 1>>, <<42560, 42604, 2, 1>>,
    <<42624, 42650, 2, 1>>, <<42786, 42798, 2, 1>>, <<42802, 42862, 2, 1>>, <<42873, 42875, 2, 1>>,
    <<42877, 42877, 1, -35332>>, <<42878, 42886, 2, 1>>, <<42891, 42891, 1, 1>>, <<42893, 42893, 1, -42280>>,
    <<42896, 42898, 2, 1>>, <<42902, 42920, 2, 1>>, <<42922, 42922, 1, -42308>>, <<42923, 42923, 1, -42319>>,
    <<42924, 42924, 1, -42315>>, <<42925, 42925, 1, -42305>>, <<42926, 42926, 1, -42308>>, <<42928, 42928, 1, -42258>>,
    <<42929, 42929, 1, -42282>>, <<42930, 42930, 1, -42261>>, <<42931, 42931, 1, 928>>, <<42932, 42946, 2, 1>>,
    <<42948, 42948, 1, -48>>, <<42949, 42949, 1, -42307>>, <<42950, 42950, 1, -35384>>, <<42951, 42953, 2, 1>>,
    <<42955, 42955, 1, -42343>>, <<42956, 42956, 1, 1>>, <<42960, 42960, 1, 1>>, <<42966, 42970, 2, 1>>,
    <<42972, 42972, 1, -42561>>, <<42997, 42997, 1, 1>>, <<65313, 65338, 1, 32>>, <<66560, 66599, 1, 40>>,
    <<66736, 66771, 1, 40>>, <<66928, 66938, 1, 39>>, <<66940, 66954, 1, 39>>, <<66956, 66962, 1, 39>>,
    <<66964, 66965, 1, 39>>, <<68736, 68786, 1, 64>>, <<68944, 68965, 1, 32>>, <<71840, 71871, 1, 32>>,
    <<93760, 93791, 1, 32>>, <<125184, 125217, 1, 34>> >>

\* The cased letters that are not case-ignorable, as << first, last >>.
CasedRanges ==
    << <<65, 90>>, <<97, 122>>, <<170, 170>>, <<181, 181>>, <<186, 186>>,
    <<192, 214>>, <<216, 246>>, <<248, 442>>, <<444, 447>>, <<452, 659>>,
    <<661, 687>>, <<880, 883>>, <<886, 887>>, <<891, 893>>, <<895, 895>>,
    <<902, 902>>, <<904, 906>>, <<908, 908>>, <<910, 929>>, <<931, 1013>>,
    <<1015, 1153>>, <<1162, 1327>>, <<1329, 1366>>, <<1376, 1416>>, <<4256, 4293>>,
    <<4295, 4295>>, <<4301, 4301>>, <<4304, 4346>>, <<4349, 4351>>, <<5024, 5109>>,
    <<5112, 5117>>, <<7296, 7306>>, <<7312, 7354>>, <<7357, 7359>>, <<7424, 7467>>,
    <<7531, 7543>>, <<7545, 7578>>, <<7680, 7957>>, <<7960, 7965>>, <<7968, 8005>>,
    <<8008, 8013>>, <<8016, 8023>>, <<8025, 8025>>, <<8027, 8027>>, <<8029, 8029>>,
    <<8031, 8061>>, <<8064, 8116>>, <<8118, 8124>>, <<8126, 8126>>, <<8130, 8132>>,
    <<8134, 8140>>, <<8144, 8147>>, <<8150, 8155>>, <<8160, 8172>>, <<8178, 8180>>,
    <<8182, 8188>>, <<8450, 8450>>, <<8455, 8455>>, <<8458, 8467>>, <<8469, 8469>>,
    <<8473, 8477>>, <<8484, 8484>>, <<8486, 8486>>, <<8488, 8488>>, <<8490, 8493>>,
    <<8495, 8500>>, <<8505, 8505>>, <<8508, 8511>>, <<8517, 8521>>, <<8526, 8526>>,
    <<8544, 8575>>, <<8579, 8580>>, <<9398, 9449>>, <<11264, 11387>>, <<11390, 11492>>,
    <<11499, 11502>>, <<11506, 11507>>, <<11520, 11557>>, <<11559, 11559>>, <<11565, 11565>>,
    <<42560, 42605>>, <<42624, 42651>>, <<42786, 42863>>, <<42865, 42887>>, <<42891, 42894>>,
    <<42896, 42957>>, <<42960, 42961>>, <<42963, 42963>>, <<42965, 42972>>, <<42997, 42998>>,
    <<43002, 43002>>, <<43824, 43866>>, <<43872, 43880>>, <<43888, 43967>>, <<64256, 64262>>,
    <<64275, 64279>>, <<65313, 65338>>, <<65345, 65370>>, <<66560, 66639>>, <<66736, 66771>>,
    <<66776, 66811>>, <<66928, 66938>>, <<66940, 66954>>, <<66956, 66962>>, <<66964, 66965>>,
    <<66967, 66977>>, <<66979, 66993>>, <<66995, 67001>>, <<67003, 67004>>, <<68736, 68786>>,
    <<68800, 68850>>, <<68944, 68965>>, <<68976, 68997>>, <<71840, 71903>>, <<93760, 93823>>,
    <<119808, 119892>>, <<119894, 119964>>, <<119966, 119967>>, <<119970, 119970>>, <<119973, 119974>>,
    <<119977, 119980>>, <<119982, 119993>>, <<119995, 119995>>, <<119997, 120003>>, <<120005, 120069>>,
    <<120071, 120074>>, <<120077, 120084>>, <<120086, 120092>>, <<120094, 120121>>, <<120123, 120126>>,
    <<120128, 120132>>, <<120134, 120134>>, <<120138, 120144>>, <<120146, 120485>>, <<120488, 120512>>,
    <<120514, 120538>>, <<120540, 120570>>, <<120572, 120596>>, <<120598, 120628>>, <<120630, 120654>>,
    <<120656, 120686>>, <<120688, 120712>>, <<120714, 120744>>, <<120746, 120770>>, <<120772, 120779>>,
    <<122624, 122633>>, <<122635, 122654>>, <<122661, 122666>>, <<125184, 125251>>, <<127280, 127305>>,
    <<127312, 127337>>, <<127344, 127369>> >>

\* The case-ignorable code points, as << first, last >>.
CaseIgnorableRanges ==
    << <<39, 39>>, <<46, 46>>, <<58, 58>>, <<94, 94>>, <<96, 96>>,
    <<168, 168>>, <<173, 173>>, <<175, 175>>, <<180, 180>>, <<183, 184>>,
    <<688, 879>>, <<884, 885>>, <<890, 890>>, <<900, 901>>, <<903, 903>>,
    <<1155, 1161>>, <<1369, 1369>>, <<1375, 1375>>, <<1425, 1469>>, <<1471, 1471>>,
    <<1473, 1474>>, <<1476, 1477>>, <<1479, 1479>>, <<1524, 1524>>, <<1536, 1541>>,
    <<1552, 1562>>, <<1564, 1564>>, <<1600, 1600>>, <<1611, 1631>>, <<1648, 1648>>,
    <<1750, 1757>>, <<1759, 1768>>, <<1770, 1773>>, <<1807, 1807>>, <<1809, 1809>>,
    <<1840, 1866>>, <<1958, 1968>>, <<2027, 2037>>, <<2042, 2042>>, <<2045, 2045>>,
    <<2070, 2093>>, <<2137, 2139>>, <<2184, 2184>>, <<2192, 2193>>, <<2199, 2207>>,
    <<2249, 2306>>, <<2362, 2362>>, <<2364, 2364>>, <<2369, 2376>>, <<2381, 2381>>,
    <<2385, 2391>>, <<2402, 2403>>, <<2417, 2417>>, <<2433, 2433>>, <<2492, 2492>>,
    <<2497, 2500>>, <<2509, 2509>>, <<2530, 2531>>, <<2558, 2558>>, <<2561, 2562>>,
    <<2620, 2620>>, <<2625, 2626>>, <<2631, 2632>>, <<2635, 2637>>, <<2641, 2641>>,
    <<2672, 2673>>, <<2677, 2677>>, <<2689, 2690>>, <<2748, 2748>>, <<2753, 2757>>,
    <<2759, 2760>>, <<2765, 2765>>, <<2786, 2787>>, <<2810, 2815>>, <<2817, 2817>>,
    <<2876, 2876>>, <<2879, 2879>>, <<2881, 2884>>, <<2893, 2893>>, <<2901, 2902>>,
    <<2914, 2915>>, <<2946, 2946>>, <<3008, 3008>>, <<3021, 3021>>, <<3072, 3072>>,
    <<3076, 3076>>, <<3132, 3132>>, <<3134, 3136>>, <<3142, 3144>>, <<3146, 3149>>,
    <<3157, 3158>>, <<3170, 3171>>, <<3201, 3201>>, <<3260, 3260>>, <<3263, 3263>>,
    <<3270, 3270>>, <<3276, 3277>>, <<3298, 3299>>, <<3328, 3329>>, <<3387, 3388>>,
    <<3393, 3396>>, <<3405, 3405>>, <<3426, 3427>>, <<3457, 3457>>, <<3530, 3530>>,
    <<3538, 3540>>, <<3542, 3542>>, <<3633, 3633>>, <<3636, 3642>>, <<3654, 3662>>,
    <<3761, 3761>>, <<3764, 3772>>, <<3782, 3782>>, <<3784, 3790>>, <<3864, 3865>>,
    <<3893, 3893>>, <<3895, 3895>>, <<3897, 3897>>, <<3953, 3966>>, <<3968, 3972>>,
    <<3974, 3975>>, <<3981, 3991>>, <<3993, 4028>>, <<4038, 4038>>, <<4141, 4144>>,
    <<4146, 4151>>, <<4153, 4154>>, <<4157, 4158>>, <<4184, 4185>>, <<4190, 4192>>,
    <<4209, 4212>>, <<4226, 4226>>, <<4229, 4230>>, <<4237, 4237>>, <<4253, 4253>>,
    <<4348, 4348>>, <<4957, 4959>>, <<5906, 5908>>, <<5938, 5939>>, <<5970, 5971>>,
    <<6002, 6003>>, <<6068, 6069>>, <<6071, 6077>>, <<6086, 6086>>, <<6089, 6099>>,
    <<6103, 6103>>, <<6109, 6109>>, <<6155, 6159>>, <<6211, 6211>>, <<6277, 6278>>,
    <<6313, 6313>>, <<6432, 6434>>, <<6439, 6440>>, <<6450, 6450>>, <<6457, 6459>>,
    <<6679, 6680>>, <<6683, 6683>>, <<6742, 6742>>, <<6744, 6750>>, <<6752, 6752>>,
    <<6754, 6754>>, <<6757, 6764>>, <<6771, 6780>>, <<6783, 6783>>, <<6823, 6823>>,
    <<6832, 6862>>, <<6912, 6915>>, <<6964, 6964>>, <<6966, 6970>>, <<6972, 6972>>,
    <<6978, 6978>>, <<7019, 7027>>, <<7040, 7041>>, <<7074, 7077>>, <<7080, 7081>>,
    <<7083, 7085>>, <<7142, 7142>>, <<7144, 7145>>, <<7149, 7149>>, <<7151, 7153>>,
    <<7212, 7219>>, <<7222, 7223>>, <<7288, 7293>>, <<7376, 7378>>, <<7380, 7392>>,
    <<7394, 7400>>, <<7405, 7405>>, <<7412, 7412>>, <<7416, 7417>>, <<7468, 7530>>,
    <<7544, 7544>>, <<7579, 7679>>, <<8125, 8125>>, <<8127, 8129>>, <<8141, 8143>>,
    <<8157, 8159>>, <<8173, 8175>>, <<8189, 8190>>, <<8203, 8207>>, <<8216, 8217>>,
    <<8228, 8228>>, <<8231, 8231>>, <<8234, 8238>>, <<8288, 8292>>, <<8294, 8303>>,
    <<8305, 8305>>, <<8319, 8319>>, <<8336, 8348>>, <<8400, 8432>>, <<11388, 11389>>,
    <<11503, 11505>>, <<11631, 11631>>, <<11647, 11647>>, <<11744, 11775>>, <<11823, 11823>>,
    <<12293, 12293>>, <<12330, 12333>>, <<12337, 12341>>, <<12347, 12347>>, <<12441, 12446>>,
    <<12540, 12542>>, <<40981, 40981>>, <<42232, 42237>>, <<42508, 42508>>, <<42607, 42610>>,
    <<42612, 42621>>, <<42623, 42623>>, <<42652, 42655>>, <<42736, 42737>>, <<42752, 42785>>,
    <<42864, 42864>>, <<42888, 42890>>, <<42994, 42996>>, <<43000, 43001>>, <<43010, 43010>>,
    <<43014, 43014>>, <<43019, 43019>>, <<43045, 43046>>, <<43052, 43052>>, <<43204, 43205>>,
    <<43232, 43249>>, <<43263, 43263>>, <<43302, 43309>>, <<43335, 43345>>, <<43392, 43394>>,
    <<43443, 43443>>, <<43446, 43449>>, <<43452, 43453>>, <<43471, 43471>>, <<43493, 43494>>,
    <<43561, 43566>>, <<43569, 43570>>, <<43573, 43574>>, <<43587, 43587>>, <<43596, 43596>>,
    <<43632, 43632>>, <<43644, 43644>>, <<43696, 43696>>, <<43698, 43700>>, <<43703, 43704>>,
    <<43710, 43711>>, <<43713, 43713>>, <<43741, 43741>>, <<43756, 43757>>, <<43763, 43764>>,
    <<43766, 43766>>, <<43867, 43871>>, <<43881, 43883>>, <<44005, 44005>>, <<44008, 44008>>,
    <<44013, 44013>>, <<64286, 64286>>, <<64434, 64450>>, <<65024, 65039>>, <<65043, 65043>>,
    <<65056, 65071>>, <<65106, 65106>>, <<65109, 65109>>, <<65279, 65279>>, <<65287, 65287>>,
    <<65294, 65294>>, <<65306, 65306>>, <<65342, 65342>>, <<65344, 65344>>, <<65392, 65392>>,
    <<65438, 65439>>, <<65507, 65507>>, <<65529, 65531>>, <<66045, 66045>>, <<66272, 66272>>,
    <<66422, 66426>>, <<67456, 67461>>, <<67463, 67504>>, <<67506, 67514>>, <<68097, 68099>>,
    <<68101, 68102>>, <<68108, 68111>>, <<68152, 68154>>, <<68159, 68159>>, <<68325, 68326>>,
    <<68900, 68903>>, <<68942, 68942>>, <<68969, 68973>>, <<68975, 68975>>, <<69291, 69292>>,
    <<69372, 69375>>, <<69446, 69456>>, <<69506, 69509>>, <<69633, 69633>>, <<69688, 69702>>,
    <<69744, 69744>>, <<69747, 69748>>, <<69759, 69761>>, <<69811, 69814>>, <<69817, 69818>>,
    <<69821, 69821>>, <<69826, 69826>>, <<69837, 69837>>, <<69888, 69890>>, <<69927, 69931>>,
    <<69933, 69940>>, <<70003, 70003>>, <<70016, 70017>>, <<70070, 70078>>, <<70089, 70092>>,
    <<70095, 70095>>, <<70191, 70193>>, <<70196, 70196>>, <<70198, 70199>>, <<70206, 70206>>,
    <<70209, 70209>>, <<70367, 70367>>, <<70371, 70378>>, <<70400, 70401>>, <<70459, 70460>>,
    <<70464, 70464>>, <<70502, 70508>>, <<70512, 70516>>, <<70587, 70592>>, <<70606, 70606>>,
    <<70608, 70608>>, <<70610, 70610>>, <<70625, 70626>>, <<70712, 70719>>, <<70722, 70724>>,
    <<70726, 70726>>, <<70750, 70750>>, <<70835, 70840>>, <<70842, 70842>>, <<70847, 70848>>,
    <<70850, 70851>>, <<71090, 71093>>, <<71100, 71101>>, <<71103, 71104>>, <<71132, 71133>>,
    <<71219, 71226>>, <<71229, 71229>>, <<71231, 71232>>, <<71339, 71339>>, <<71341, 71341>>,
    <<71344, 71349>>, <<71351, 71351>>, <<71453, 71453>>, <<71455, 71455>>, <<71458, 71461>>,
    <<71463, 71467>>, <<71727, 71735>>, <<71737, 71738>>, <<71995, 71996>>, <<71998, 71998>>,
    <<72003, 72003>>, <<72148, 72151>>, <<72154, 72155>>, <<72160, 72160>>, <<72193, 72202>>,
    <<72243, 72248>>, <<72251, 72254>>, <<72263, 72263>>, <<72273, 72278>>, <<72281, 72283>>,
    <<72330, 72342>>, <<72344, 72345>>, <<72752, 72758>>, <<72760, 72765>>, <<72767, 72767>>,
    <<72850, 72871>>, <<72874, 72880>>, <<72882, 72883>>, <<72885, 72886>>, <<73009, 73014>>,
    <<73018, 73018>>, <<73020, 73021>>, <<73023, 73029>>, <<73031, 73031>>, <<73104, 73105>>,
    <<73109, 73109>>, <<73111, 73111>>, <<73459, 73460>>, <<73472, 73473>>, <<73526, 73530>>,
    <<73536, 73536>>, <<73538, 73538>>, <<73562, 73562>>, <<78896, 78912>>, <<78919, 78933>>,
    <<90398, 90409>>, <<90413, 90415>>, <<92912, 92916>>, <<92976, 92982>>, <<92992, 92995>>,
    <<93504, 93506>>, <<93547, 93548>>, <<94031, 94031>>, <<94095, 94111>>, <<94176, 94177>>,
    <<94179, 94180>>, <<110576, 110579>>, <<110581, 110587>>, <<110589, 110590>>, <<113821, 113822>>,
    <<113824, 113827>>, <<118528, 118573>>, <<118576, 118598>>, <<119143, 119145>>, <<119155, 119170>>,
    <<119173, 119179>>, <<119210, 119213>>, <<119362, 119364>>, <<121344, 121398>>, <<121403, 121452>>,
    <<121461, 121461>>, <<121476, 121476>>, <<121499, 121503>>, <<121505, 121519>>, <<122880, 122886>>,
    <<122888, 122904>>, <<122907, 122913>>, <<122915, 122916>>, <<122918, 122922>>, <<122928, 122989>>,
    <<123023, 123023>>, <<123184, 123197>>, <<123566, 123566>>, <<123628, 123631>>, <<124139, 124143>>,
    <<124398, 124399>>, <<125136, 125142>>, <<125252, 125259>>, <<127995, 127999>>, <<917505, 917505>>,
    <<917536, 917631>>, <<917760, 917999>> >>

\* the code points of a list of ranges << first, last >>
CodePointsOf(ranges) ==
    UNION { ranges[k][1]..ranges[k][2] : k \in 1..Len(ranges) }

CasedCodePoints == CodePointsOf(CasedRanges)

CaseIgnorableCodePoints == CodePointsOf(CaseIgnorableRanges)

IsCased(c) == c \in CasedCodePoints

IsCaseIgnorable(c) == c \in CaseIgnorableCodePoints

\* LowerCaseRanges as a function from the code points that have a mapping
LowerCaseMap ==
    LET mapped(k) == { c \in LowerCaseRanges[k][1]..LowerCaseRanges[k][2] :
                          (c - LowerCaseRanges[k][1]) % LowerCaseRanges[k][3] = 0 }
        pairs == UNION { { << c, c + LowerCaseRanges[k][4] >> : c \in mapped(k) } :
                            k \in 1..Len(LowerCaseRanges) }
    IN  [ c \in { pr[1] : pr \in pairs } |->
              (CHOOSE pr \in pairs : pr[1] = c)[2] ]

IsHighSurrogate(u) == 55296 <= u /\ u <= 56319

IsLowSurrogate(u) == 56320 <= u /\ u <= 57343

\* position i of the code units s holds the first unit of a surrogate pair
IsLead(s, i) ==
    i < Len(s) /\ IsHighSurrogate(s[i]) /\ IsLowSurrogate(s[i + 1])

\* position i holds the second unit of a surrogate pair
IsTrail(s, i) ==
    i > 1 /\ IsLowSurrogate(s[i]) /\ IsHighSurrogate(s[i - 1])

\* the code point that starts at position i; a surrogate without its partner
\* stands for itself
CodePointAt(s, i) ==
    IF IsLead(s, i)
    THEN 65536 + (s[i] - 55296) * 1024 + (s[i + 1] - 56320)
    ELSE s[i]

\* the code units of one code point
CodeUnits(c) ==
    IF c < 65536 THEN << c >>
    ELSE << 55296 + ((c - 65536) \div 1024), 56320 + ((c - 65536) % 1024) >>

\* The lower-case mapping of one code point out of context, as code units:
\* A-Z directly, I with dot above (U+0130) as "i" and the combining dot
\* U+0307, every other code point by LowerCaseMap.
toLowerCaseChar(c) ==
    IF c < 128
    THEN (IF 65 <= c /\ c <= 90 THEN << c + 32 >> ELSE << c >>)
    ELSE IF c = 304 THEN << 105, 775 >>
    ELSE IF c \in DOMAIN LowerCaseMap THEN CodeUnits(LowerCaseMap[c])
    ELSE CodeUnits(c)

\* Final_Sigma: the capital sigma (U+03A3) at position i ends a word, i.e. a
\* cased letter precedes it and none follows it, case-ignorable code points
\* in between not counted
IsFinalSigma(s, i) ==
    /\ s[i] = 931
    /\ \E j \in 1..(i - 1) :
          /\ ~IsTrail(s, j)
          /\ IsCased(CodePointAt(s, j))
          /\ \A k \in (j + 1)..(i - 1) :
                IsTrail(s, k) \/ IsCaseIgnorable(CodePointAt(s, k))
    /\ ~\E j \in (i + 1)..Len(s) :
          /\ ~IsTrail(s, j)
          /\ IsCased(CodePointAt(s, j))
          /\ \A k \in (i + 1)..(j - 1) :
                IsTrail(s, k) \/ IsCaseIgnorable(CodePointAt(s, k))

\* the lower-case code units that position i contributes; a final sigma
\* becomes U+03C2
LowerAt(s, i) ==
    IF IsTrail(s, i) THEN << >>
    ELSE IF IsFinalSigma(s, i) THEN << 962 >>
    ELSE toLowerCaseChar(CodePointAt(s, i))

RECURSIVE LowerFrom(_, _)
LowerFrom(s, i) ==
    IF i > Len(s) THEN << >> ELSE LowerAt(s, i) \o LowerFrom(s, i + 1)

toLowerCase(s) == LowerFrom(s, 1)

startsWith(s, prefix) ==
    /\ Len(s) >= Len(prefix)
    /\ SubSeq(s, 1, Len(prefix)) = prefix

endsWith(s, suffix) ==
    /\ Len(s) >= Len(suffix)
    /\ SubSeq(s, Len(s) - Len(suffix) + 1, Len(s)) = suffix

\* "image/"
ImagePrefix == << 105, 109, 97, 103, 101, 47 >>

\* ".heic"
HeicSuffix == << 46, 104, 101, 105, 99 >>

(***************************************************************************)
(* Files offered to the upload input                                       *)
(***************************************************************************)
\* "image/png"
TypePng == << 105, 109, 97, 103, 101, 47, 112, 110, 103 >>

\* "text/plain"
TypeText == << 116, 101, 120, 116, 47, 112, 108, 97, 105, 110 >>

\* "image" without the slash: not an image/ type
TypeImageNoSlash == << 105, 109, 97, 103, 101 >>

\* browsers report an empty type for files they do not recognise (.heic)
TypeEmpty == << >>

\* "a.png"
NamePng == << 97, 46, 112, 110, 103 >>

\* "a.heic"
NameHeic == << 97, 46, 104, 101, 105, 99 >>

\* "A.HEIC"
NameHeicUpper == << 65, 46, 72, 69, 73, 67 >>

\* "a.txt"
NameTxt == << 97, 46, 116, 120, 116 >>

\* "heic": ends in "heic" but not in ".heic"
NameNoDot == << 104, 101, 105, 99 >>

\* "a.heic.txt": ".heic" in the middle of the name only
NameHeicInside == << 97, 46, 104, 101, 105, 99, 46, 116, 120, 116 >>

\* "a.HEİC": lower-cased, a combining dot stands between "i" and "c"
NameHeicDotted == << 97, 46, 72, 69, 304, 67 >>

\* "a.heiK": the Kelvin sign lower-cases to "k"
NameHeiKelvin == << 97, 46, 104, 101, 105, 8490 >>

\* "ÄΣ.HEIC": A with diaeresis and a sigma before the extension
NameUmlautHeic == << 196, 931, 46, 72, 69, 73, 67 >>

\* "application/octet-stream", the type readAsDataURL writes for a file
\* whose type is empty
TypeOctetStream == << 97, 112, 112, 108, 105, 99, 97, 116, 105, 111, 110, 47, 111, 99, 116, 101, 116, 45, 115, 116, 114, 101, 97, 109 >>

File(type, name, bytes) == [type |-> type, name |-> name, bytes |-> bytes]

\* the inputs of SpecUpload: files accepted for their type only, for their
\* name only (in either case) and for both, and files with neither
AllFiles ==
    { File(TypePng, NameTxt, 1),
      File(TypePng, NameHeic, 1),
      File(TypeEmpty, NameHeic, 1),
      File(TypeText, NameHeicUpper, 1),
      File(TypeText, NameTxt, 1),
      File(TypeText, NamePng, 1),
      File(TypeEmpty, NameHeicInside, 1),
      File(TypeEmpty, NameHeicDotted, 1),
      File(TypeText, NameHeiKelvin, 1),
      File(TypeText, NameUmlautHeic, 1),
      File(TypeImageNoSlash, NameNoDot, 1),
      File(TypeEmpty, NameNoDot, 1) }

\* the files of the full application model: an image per content and a
\* text file
AppFiles ==
    {File(TypePng, NamePng, b) : b \in FileContents} \cup {File(TypeText, NameTxt, 1)}

\* the file test without toLowerCase: ".HEIC" is no longer recognised
IsAcceptedFileCaseSensitive(file) ==
    \/ startsWith(file.type, ImagePrefix)
    \/ endsWith(file.name, HeicSuffix)

\* the test of handleImageUpload on the chosen file
IsAcceptedFile(file) ==
    \/ startsWith(file.type, ImagePrefix)
    \/ endsWith(toLowerCase(file.name), HeicSuffix)

\* FileReader.readAsDataURL: reader.result after a successful read, the data
\* URL "data:<type>;base64,<bytes>"; a file without a type is written as
\* application/octet-stream
DataURL(file) ==
    [ mime |-> IF file.type = << >> THEN TypeOctetStream ELSE file.type,
      data |-> file.bytes ]

(***************************************************************************)
(* Caption text and date inputs                                            *)
(***************************************************************************)
\* the cap of handleTextChange (and the input's maxLength)
MaxTextLength == 50

\* a string of n copies of the character c
Text(n, c) == [i \in 1..n |-> c]

Tokyo2024 == << "T","o","k","y","o"," ","2","0","2","4" >>

\* candidates of the full application model
AppTexts == {<< >>, Tokyo2024, Text(MaxTextLength + 1, "x")}

\* candidates of SpecText: every length from 0 past the cap, two characters
AllTexts == {Text(n, c) : n \in 0..MaxCandidateLen, c \in {"a", "b"}}

\* e.target.value of a cleared date input
EmptyValue == [js |-> "empty string"]

\* e.target.value of a date input, "YYYY-MM-DD", as its three numbers
DateValue(y, m, d) == [year |-> y, month |-> m, day |-> d]

IsLeapYear(y) == (y % 4 = 0 /\ y % 100 # 0) \/ y % 400 = 0

DaysInMonth(y, m) ==
    IF m = 2 THEN (IF IsLeapYear(y) THEN 29 ELSE 28)
    ELSE IF m \in {4, 6, 9, 11} THEN 30 ELSE 31

\* the date picker only emits valid calendar dates
IsValidDate(v) ==
    /\ v.month \in 1..12
    /\ v.day \in 1..DaysInMonth(v.year, v.month)

\* the last value the date input accepts
MaxDateValue == DateValue(275760, 9, 13)

\* years of the date input: its first year, the epoch, a century leap year,
\* two ordinary years, the first year of five digits and its last year
DateYears == {1, 1970, 2000, 2023, 2024, 10000, 275760}

SecondsPerDay == 86400

\* days between 1970-01-01 and the civil date y-m-d (proleptic Gregorian)
DaysFromCivil(y, m, d) ==
    LET yy  == IF m <= 2 THEN y - 1 ELSE y
        era == yy \div 400
        yoe == yy - era * 400
        mp  == IF m > 2 THEN m - 3 ELSE m + 9
        doy == (153 * mp + 2) \div 5 + d - 1
        doe == yoe * 365 + yoe \div 4 - yoe \div 100 + doy
    IN  era * 146097 + doe - 719468

\* the civil date of the day z days after 1970-01-01
CivilFromDays(z) ==
    LET zz  == z + 719468
        era == zz \div 146097
        doe == zz - era * 146097
        yoe == (doe - doe \div 1460 + doe \div 36524 - doe \div 146096) \div 365
        doy == doe - (365 * yoe + yoe \div 4 - yoe \div 100)
        mp  == (5 * doy + 2) \div 153
        d   == doy - (153 * mp + 2) \div 5 + 1
        m   == IF mp < 10 THEN mp + 3 ELSE mp - 9
        y   == yoe + era * 400 + (IF m <= 2 THEN 1 ELSE 0)
    IN  DateValue(y, m, d)

AllDates ==
    {v \in {DateValue(y, m, d) : y \in DateYears, m \in 1..12,
                                 d \in {1, 15, 24, 28, 29, 30, 31}} :
        /\ IsValidDate(v)
        /\ DaysFromCivil(v.year, v.month, v.day)
              <= DaysFromCivil(MaxDateValue.year, MaxDateValue.month,
                               MaxDateValue.day)}
        \cup {MaxDateValue}

AppDates == {DateValue(2024, 12, 24)}

\* A time value: `days` whole days since the epoch and `seconds` (0..86399)
\* into that day, i.e. (days * 86400 + seconds) * 1000 milliseconds since
\* the epoch.
TimeValue(days, seconds) ==
    [ days    |-> days + seconds \div SecondsPerDay,
      seconds |-> seconds % SecondsPerDay ]

\* the time value s seconds after t
Plus(t, s) == TimeValue(t.days, t.seconds + s)

\* the time value of an invalid Date (NaN)
InvalidDate == [js |-> "NaN"]

\* a Date holds the time values of 100,000,000 days either side of the epoch
MaxTimeDays == 100000000

IsValidTime(t) ==
    /\ t # InvalidDate
    /\ 0 - MaxTimeDays <= t.days
    /\ \/ t.days < MaxTimeDays
       \/ t.days = MaxTimeDays /\ t.seconds = 0

TimeClip(t) == IF IsValidTime(t) THEN t ELSE InvalidDate

(***************************************************************************)
(* Time zones of the environment, by their name in the time zone database. *)
(* A zone has the offset `initial` (local mean time) before its first      *)
(* transition, a list of transitions << day, second, offset >> in time     *)
(* order, each setting the offset from that instant on, and, for a zone    *)
(* with summer time, the yearly rule in force from 1 January of `ruleFrom`.*)
(* Offsets are seconds east of UTC.                                        *)
(***************************************************************************)
NoTransitions == << >>

NoRule == [ std |-> 0, dst |-> 0,
            startMonth |-> 0, startWeek |-> 0, startTime |-> 0,
            endMonth |-> 0, endWeek |-> 0, endTime |-> 0 ]

FixedZone(offset) ==
    [ initial |-> offset, transitions |-> NoTransitions,
      hasRule |-> FALSE, ruleFrom |-> 0, rule |-> NoRule ]

\* Europe/London before 1996
LondonTransitions ==
    << <<-44591, 75, 0>>, <<-19583, 7200, 3600>>, <<-19450, 7200, 0>>,
    <<-19261, 7200, 3600>>, <<-19099, 7200, 0>>, <<-18911, 7200, 3600>>,
    <<-18721, 7200, 0>>, <<-18540, 7200, 3600>>, <<-18357, 7200, 0>>,
    <<-18176, 7200, 3600>>, <<-17965, 7200, 0>>, <<-17805, 7200, 3600>>,
    <<-17622, 7200, 0>>, <<-17448, 7200, 3600>>, <<-17252, 7200, 0>>,
    <<-17056, 7200, 3600>>, <<-16909, 7200, 0>>, <<-16699, 7200, 3600>>,
    <<-16538, 7200, 0>>, <<-16328, 7200, 3600>>, <<-16160, 7200, 0>>,
    <<-15964, 7200, 3600>>, <<-15796, 7200, 0>>, <<-15607, 7200, 3600>>,
    <<-15432, 7200, 0>>, <<-15229, 7200, 3600>>, <<-15061, 7200, 0>>,
    <<-14865, 7200, 3600>>, <<-14697, 7200, 0>>, <<-14508, 7200, 3600>>,
    <<-14333, 7200, 0>>, <<-14137, 7200, 3600>>, <<-13969, 7200, 0>>,
    <<-13773, 7200, 3600>>, <<-13605, 7200, 0>>, <<-13416, 7200, 3600>>,
    <<-13234, 7200, 0>>, <<-13038, 7200, 3600>>, <<-12870, 7200, 0>>,
    <<-12681, 7200, 3600>>, <<-12506, 7200, 0>>, <<-12310, 7200, 3600>>,
    <<-12142, 7200, 0>>, <<-11946, 7200, 3600>>, <<-11778, 7200, 0>>,
    <<-11589, 7200, 3600>>, <<-11414, 7200, 0>>, <<-11218, 7200, 3600>>,
    <<-11001, 7200, 0>>, <<-10903, 7200, 3600>>, <<-10469, 3600, 7200>>,
    <<-10371, 3600, 3600>>, <<-10133, 3600, 7200>>, <<-10007, 3600, 3600>>,
    <<-9769, 3600, 7200>>, <<-9636, 3600, 3600>>, <<-9405, 3600, 7200>>,
    <<-9237, 3600, 3600>>, <<-9040, 3600, 7200>>, <<-8936, 3600, 3600>>,
    <<-8852, 7200, 0>>, <<-8663, 7200, 3600>>, <<-8488, 7200, 0>>,
    <<-8327, 7200, 3600>>, <<-8299, 3600, 7200>>, <<-8180, 3600, 3600>>,
    <<-8096, 7200, 0>>, <<-7963, 7200, 3600>>, <<-7732, 7200, 0>>,
    <<-7578, 7200, 3600>>, <<-7368, 7200, 0>>, <<-7200, 7200, 3600>>,
    <<-7011, 7200, 0>>, <<-6836, 7200, 3600>>, <<-6647, 7200, 0>>,
    <<-6465, 7200, 3600>>, <<-6276, 7200, 0>>, <<-6101, 7200, 3600>>,
    <<-5933, 7200, 0>>, <<-5744, 7200, 3600>>, <<-5569, 7200, 0>>,
    <<-5373, 7200, 3600>>, <<-5205, 7200, 0>>, <<-5002, 7200, 3600>>,
    <<-4834, 7200, 0>>, <<-4645, 7200, 3600>>, <<-4470, 7200, 0>>,
    <<-4274, 7200, 3600>>, <<-4106, 7200, 0>>, <<-3910, 7200, 3600>>,
    <<-3742, 7200, 0>>, <<-3553, 7200, 3600>>, <<-3378, 7200, 0>>,
    <<-3203, 7200, 3600>>, <<-2986, 7200, 0>>, <<-2839, 7200, 3600>>,
    <<-2622, 7200, 0>>, <<-2468, 7200, 3600>>, <<-2258, 7200, 0>>,
    <<-2111, 7200, 3600>>, <<-1894, 7200, 0>>, <<-1747, 7200, 3600>>,
    <<-1530, 7200, 0>>, <<-1383, 7200, 3600>>, <<-1166, 7200, 0>>,
    <<-1019, 7200, 3600>>, <<-795, 7200, 0>>, <<-683, 7200, 3600>>,
    <<668, 7200, 0>>, <<808, 7200, 3600>>, <<1032, 7200, 0>>,
    <<1172, 7200, 3600>>, <<1396, 7200, 0>>, <<1536, 7200, 3600>>,
    <<1760, 7200, 0>>, <<1900, 7200, 3600>>, <<2124, 7200, 0>>,
    <<2271, 7200, 3600>>, <<2488, 7200, 0>>, <<2635, 7200, 3600>>,
    <<2852, 7200, 0>>, <<2999, 7200, 3600>>, <<3223, 7200, 0>>,
    <<3363, 7200, 3600>>, <<3587, 7200, 0>>, <<3727, 7200, 3600>>,
    <<3951, 7200, 0>>, <<4105, 3600, 3600>>, <<4315, 3600, 0>>,
    <<4469, 3600, 3600>>, <<4679, 3600, 0>>, <<4833, 3600, 3600>>,
    <<5043, 3600, 0>>, <<5197, 3600, 3600>>, <<5414, 3600, 0>>,
    <<5568, 3600, 3600>>, <<5778, 3600, 0>>, <<5932, 3600, 3600>>,
    <<6142, 3600, 0>>, <<6296, 3600, 3600>>, <<6506, 3600, 0>>,
    <<6660, 3600, 3600>>, <<6870, 3600, 0>>, <<7024, 3600, 3600>>,
    <<7241, 3600, 0>>, <<7388, 3600, 3600>>, <<7605, 3600, 0>>,
    <<7759, 3600, 3600>>, <<7969, 3600, 0>>, <<8123, 3600, 3600>>,
    <<8333, 3600, 0>>, <<8487, 3600, 3600>>, <<8697, 3600, 0>>,
    <<8851, 3600, 3600>>, <<9061, 3600, 0>>, <<9215, 3600, 3600>>,
    <<9425, 3600, 0>> >>

\* GMT0BST,M3.5.0/1,M10.5.0: summer time from the last Sunday of March,
\* 01:00 local time, to the last Sunday of October, 02:00 local time
LondonRule ==
    [ std |-> 0, dst |-> 3600,
      startMonth |-> 3, startWeek |-> 5, startTime |-> 3600,
      endMonth |-> 10, endWeek |-> 5, endTime |-> 7200 ]

\* America/New_York before 2007
NewYorkTransitions ==
    << <<-31455, 61200, -18000>>, <<-18904, 25200, -14400>>, <<-18694, 21600, -18000>>,
    <<-18540, 25200, -14400>>, <<-18330, 21600, -18000>>, <<-18176, 25200, -14400>>,
    <<-17959, 21600, -18000>>, <<-17784, 25200, -14400>>, <<-17630, 21600, -18000>>,
    <<-17413, 25200, -14400>>, <<-17266, 21600, -18000>>, <<-17049, 25200, -14400>>,
    <<-16895, 21600, -18000>>, <<-16685, 25200, -14400>>, <<-16531, 21600, -18000>>,
    <<-16321, 25200, -14400>>, <<-16167, 21600, -18000>>, <<-15957, 25200, -14400>>,
    <<-15803, 21600, -18000>>, <<-15593, 25200, -14400>>, <<-15439, 21600, -18000>>,
    <<-15222, 25200, -14400>>, <<-15068, 21600, -18000>>, <<-14858, 25200, -14400>>,
    <<-14704, 21600, -18000>>, <<-14494, 25200, -14400>>, <<-14340, 21600, -18000>>,
    <<-14130, 25200, -14400>>, <<-13976, 21600, -18000>>, <<-13766, 25200, -14400>>,
    <<-13612, 21600, -18000>>, <<-13395, 25200, -14400>>, <<-13248, 21600, -18000>>,
    <<-13031, 25200, -14400>>, <<-12877, 21600, -18000>>, <<-12667, 25200, -14400>>,
    <<-12513, 21600, -18000>>, <<-12303, 25200, -14400>>, <<-12149, 21600, -18000>>,
    <<-11939, 25200, -14400>>, <<-11785, 21600, -18000>>, <<-11575, 25200, -14400>>,
    <<-11421, 21600, -18000>>, <<-11204, 25200, -14400>>, <<-11057, 21600, -18000>>,
    <<-10840, 25200, -14400>>, <<-10686, 21600, -18000>>, <<-10476, 25200, -14400>>,
    <<-10322, 21600, -18000>>, <<-10188, 25200, -14400>>, <<-8859, 21600, -18000>>,
    <<-8649, 25200, -14400>>, <<-8495, 21600, -18000>>, <<-8285, 25200, -14400>>,
    <<-8131, 21600, -18000>>, <<-7921, 25200, -14400>>, <<-7767, 21600, -18000>>,
    <<-7557, 25200, -14400>>, <<-7403, 21600, -18000>>, <<-7186, 25200, -14400>>,
    <<-7039, 21600, -18000>>, <<-6822, 25200, -14400>>, <<-6668, 21600, -18000>>,
    <<-6458, 25200, -14400>>, <<-6304, 21600, -18000>>, <<-6094, 25200, -14400>>,
    <<-5940, 21600, -18000>>, <<-5730, 25200, -14400>>, <<-5576, 21600, -18000>>,
    <<-5366, 25200, -14400>>, <<-5177, 21600, -18000>>, <<-4995, 25200, -14400>>,
    <<-4813, 21600, -18000>>, <<-4631, 25200, -14400>>, <<-4449, 21600, -18000>>,
    <<-4267, 25200, -14400>>, <<-4085, 21600, -18000>>, <<-3903, 25200, -14400>>,
    <<-3721, 21600, -18000>>, <<-3539, 25200, -14400>>, <<-3350, 21600, -18000>>,
    <<-3168, 25200, -14400>>, <<-2986, 21600, -18000>>, <<-2804, 25200, -14400>>,
    <<-2622, 21600, -18000>>, <<-2440, 25200, -14400>>, <<-2258, 21600, -18000>>,
    <<-2076, 25200, -14400>>, <<-1894, 21600, -18000>>, <<-1712, 25200, -14400>>,
    <<-1523, 21600, -18000>>, <<-1348, 25200, -14400>>, <<-1159, 21600, -18000>>,
    <<-977, 25200, -14400>>, <<-795, 21600, -18000>>, <<-613, 25200, -14400>>,
    <<-431, 21600, -18000>>, <<-249, 25200, -14400>>, <<-67, 21600, -18000>>,
    <<115, 25200, -14400>>, <<297, 21600, -18000>>, <<479, 25200, -14400>>,
    <<668, 21600, -18000>>, <<850, 25200, -14400>>, <<1032, 21600, -18000>>,
    <<1214, 25200, -14400>>, <<1396, 21600, -18000>>, <<1466, 25200, -14400>>,
    <<1760, 21600, -18000>>, <<1879, 25200, -14400>>, <<2124, 21600, -18000>>,
    <<2306, 25200, -14400>>, <<2495, 21600, -18000>>, <<2670, 25200, -14400>>,
    <<2859, 21600, -18000>>, <<3041, 25200, -14400>>, <<3223, 21600, -18000>>,
    <<3405, 25200, -14400>>, <<3587, 21600, -18000>>, <<3769, 25200, -14400>>,
    <<3951, 21600, -18000>>, <<4133, 25200, -14400>>, <<4315, 21600, -18000>>,
    <<4497, 25200, -14400>>, <<4686, 21600, -18000>>, <<4861, 25200, -14400>>,
    <<5050, 21600, -18000>>, <<5232, 25200, -14400>>, <<5414, 21600, -18000>>,
    <<5596, 25200, -14400>>, <<5778, 21600, -18000>>, <<5960, 25200, -14400>>,
    <<6142, 21600, -18000>>, <<6303, 25200, -14400>>, <<6506, 21600, -18000>>,
    <<6667, 25200, -14400>>, <<6877, 21600, -18000>>, <<7031, 25200, -14400>>,
    <<7241, 21600, -18000>>, <<7395, 25200, -14400>>, <<7605, 21600, -18000>>,
    <<7766, 25200, -14400>>, <<7969, 21600, -18000>>, <<8130, 25200, -14400>>,
    <<8333, 21600, -18000>>, <<8494, 25200, -14400>>, <<8704, 21600, -18000>>,
    <<8858, 25200, -14400>>, <<9068, 21600, -18000>>, <<9222, 25200, -14400>>,
    <<9432, 21600, -18000>>, <<9593, 25200, -14400>>, <<9796, 21600, -18000>>,
    <<9957, 25200, -14400>>, <<10160, 21600, -18000>>, <<10321, 25200, -14400>>,
    <<10524, 21600, -18000>>, <<10685, 25200, -14400>>, <<10895, 21600, -18000>>,
    <<11049, 25200, -14400>>, <<11259, 21600, -18000>>, <<11413, 25200, -14400>>,
    <<11623, 21600, -18000>>, <<11784, 25200, -14400>>, <<11987, 21600, -18000>>,
    <<12148, 25200, -14400>>, <<12351, 21600, -18000>>, <<12512, 25200, -14400>>,
    <<12722, 21600, -18000>>, <<12876, 25200, -14400>>, <<13086, 21600, -18000>>,
    <<13240, 25200, -14400>>, <<13450, 21600, -18000>> >>

\* EST5EDT,M3.2.0,M11.1.0: summer time from the second Sunday of March to
\* the first Sunday of November, 02:00 local time
NewYorkRule ==
    [ std |-> -18000, dst |-> -14400,
      startMonth |-> 3, startWeek |-> 2, startTime |-> 7200,
      endMonth |-> 11, endWeek |-> 1, endTime |-> 7200 ]

\* Asia/Kolkata
KolkataTransitions ==
    << <<-42191, 65192, 21200>>, <<-36525, 65200, 19270>>, <<-23377, 67130, 19800>>,
    <<-10320, 66600, 23400>>, <<-10094, 63000, 19800>>, <<-9985, 66600, 23400>>,
    <<-8845, 63000, 19800>> >>

Zone(name) ==
    CASE name = "Etc/GMT+12" -> FixedZone(-43200)
      [] name = "Etc/GMT+5" -> FixedZone(-18000)
      [] name = "UTC" -> FixedZone(0)
      [] name = "Etc/GMT-14" -> FixedZone(50400)
      [] name = "Asia/Kolkata" ->
             [ initial |-> 21208, transitions |-> KolkataTransitions,
               hasRule |-> FALSE, ruleFrom |-> 0, rule |-> NoRule ]
      [] name = "Europe/London" ->
             [ initial |-> -75, transitions |-> LondonTransitions,
               hasRule |-> TRUE, ruleFrom |-> 1996, rule |-> LondonRule ]
      [] name = "America/New_York" ->
             [ initial |-> -17762, transitions |-> NewYorkTransitions,
               hasRule |-> TRUE, ruleFrom |-> 2007, rule |-> NewYorkRule ]

AllTimeZones == {"Etc/GMT+12", "Etc/GMT+5", "America/New_York", "UTC",
                 "Europe/London", "Asia/Kolkata", "Etc/GMT-14"}

AppTimeZones == {"UTC"}

\* the day of the week-th Sunday of month m of year y; week 5 is the last
NthSunday(y, m, week) ==
    LET first  == DaysFromCivil(y, m, 1)
        sunday == first + ((7 - ((first + 4) % 7)) % 7)
        day    == sunday + 7 * (week - 1)
    IN  IF day >= first + DaysInMonth(y, m) THEN day - 7 ELSE day

\* a <= b for time values
NotAfter(a, b) == a.days < b.days \/ (a.days = b.days /\ a.seconds <= b.seconds)

\* the offset of a yearly rule at time value t
RuleOffset(r, t) ==
    LET y     == CivilFromDays(t.days).year
        start == TimeValue(NthSunday(y, r.startMonth, r.startWeek),
                           r.startTime - r.std)
        end   == TimeValue(NthSunday(y, r.endMonth, r.endWeek),
                           r.endTime - r.dst)
    IN  IF NotAfter(start, t) /\ ~NotAfter(end, t) THEN r.dst ELSE r.std

\* the UTC offset of the zone at time value t
OffsetAt(name, t) ==
    LET z  == Zone(name)
        tr == z.transitions
        passed == Cardinality({k \in 1..Len(tr) :
                                  \/ tr[k][1] < t.days
                                  \/ tr[k][1] = t.days /\ tr[k][2] <= t.seconds})
    IN  IF z.hasRule /\ t.days >= DaysFromCivil(z.ruleFrom, 1, 1)
        THEN RuleOffset(z.rule, t)
        ELSE IF passed = 0 THEN z.initial
        ELSE tr[passed][3]

\* the largest year of the date-only form "YYYY-MM-DD"
MaxIsoYear == 9999

\* new Date(value) in the zone.  "YYYY-MM-DD" is a date-only string:
\* midnight UTC of that day.  A year of more than four digits is not of that
\* form; the string goes to the fallback parser, which reads it as midnight
\* local time, and a time value out of range makes the Date invalid.
ParseDate(v, zone) ==
    LET local == TimeValue(DaysFromCivil(v.year, v.month, v.day), 0)
        guess == Plus(local, 0 - OffsetAt(zone, local))
    IN  IF v.year <= MaxIsoYear
        THEN local
        ELSE TimeClip(Plus(local, 0 - OffsetAt(zone, guess)))

\* the calendar date a time value falls on in the zone
LocalDate(t, zone) == CivilFromDays(Plus(t, OffsetAt(zone, t)).days)

MonthShort == << "Jan", "Feb", "Mar", "Apr", "May", "Jun",
                 "Jul", "Aug", "Sep", "Oct", "Nov", "Dec" >>

\* the en-US pattern of { month: 'short', day: 'numeric', year: 'numeric' }
\* The year is the year of the era: the year 0 of the proleptic calendar is
\* 1 BC and prints as 1.
FormatEnUS(v) ==
    MonthShort[v.month] \o " " \o ToString(v.day) \o ", "
        \o ToString(IF v.year <= 0 THEN 1 - v.year ELSE v.year)

\* Date.prototype.toLocaleDateString('en-US', ...) in the zone
toLocaleDateString(t, zone) ==
    IF IsValidTime(t) THEN FormatEnUS(LocalDate(t, zone)) ELSE "Invalid Date"

(***************************************************************************)
(* Frame geometry and rendering                                            *)
(***************************************************************************)
\* getFrameStyles with the wide strip height left at the mini value
getFrameStylesOneStrip(v, f) ==
    [ frameWidth  |-> IF f = "wide" THEN 400 ELSE 320,
      aspectRatio |-> IF f = "wide" THEN "99/62"
                      ELSE IF v = "full" THEN "54/86" ELSE "62/46",
      stripHeight |-> "40" ]

\* getFrameStyles of the two variants: they differ in the mini aspect ratio
getFrameStyles(v, f) ==
    [ frameWidth  |-> IF f = "wide" THEN 400 ELSE 320,
      aspectRatio |-> IF f = "wide" THEN "99/62"
                      ELSE IF v = "full" THEN "54/86" ELSE "62/46",
      stripHeight |-> IF f = "wide" THEN "48" ELSE "40" ]

\* the tree with the Save Photo button outside the `selectedImage &&` block
RenderButtonAlways(v, image, err, f, text, date) ==
    LET styles == getFrameStyles(v, f)
    IN  [ errorBox   |-> [shown |-> err # "", text |-> err],
          frame      |-> IF image # NULL
                         THEN [ width       |-> styles.frameWidth,
                                aspectRatio |-> styles.aspectRatio,
                                stripHeight |-> styles.stripHeight,
                                src         |-> image,
                                text        |-> text,
                                date        |-> date,
                                instaxFrame |-> (v = "full") ]
                         ELSE NULL,
          saveButton |-> (v = "full") ]

\* the tree the component returns: the error box, the frame display with the
\* caption strip, and (full variant) the Save Photo button
Render(v, image, err, f, text, date) ==
    LET styles == getFrameStyles(v, f)
    IN  [ errorBox   |-> [shown |-> err # "", text |-> err],
          frame      |-> IF image # NULL
                         THEN [ width       |-> styles.frameWidth,
                                aspectRatio |-> styles.aspectRatio,
                                stripHeight |-> styles.stripHeight,
                                src         |-> image,
                                text        |-> text,
                                date        |-> date,
                                instaxFrame |-> (v = "full") ]
                         ELSE NULL,
          saveButton |-> (image # NULL /\ v = "full") ]

\* React re-renders after every state update
Commit ==
    dom' = Render(variant', selectedImage', error', format', photoText', photoDate')

(***************************************************************************)
(* FileReaders                                                             *)
(***************************************************************************)
\* the readers whose read has not settled yet
Loading == {i \in 1..Len(readers) : readers[i].state = "loading"}

\* reader = new FileReader(); reader.readAsDataURL(file).  `pending` records
\* which earlier reads were still in flight when this one was started.
NewReader(file) == [file |-> file, state |-> "loading", pending |-> Loading]

Settle(i, outcome) == [readers EXCEPT ![i].state = outcome]

(***************************************************************************)
(* handleImageUpload                                                       *)
(***************************************************************************)
\* the upload handler with setError('') moved inside `if (file)`: a dismissed
\* picker leaves the old message
handleImageUploadLateClear(file) ==
    /\ IF file = NoFile
       THEN UNCHANGED << error, readers >>
       ELSE IF IsAcceptedFile(file)
       THEN /\ Len(readers) < MaxUploads
            /\ error' = ""
            /\ readers' = Append(readers, NewReader(file))
       ELSE /\ error' = MsgUnsupported
            /\ UNCHANGED readers
    /\ UNCHANGED << variant, timeZone, selectedImage, format, photoText,
                    photoDate, exports, downloads >>
    /\ Commit

\* onChange of the file input with event.target.files[0] = file.
\* readAsDataURL of a File taken from a file input does not throw, so the
\* catch arm of the handler ('Failed to process the image.') is not entered.
handleImageUpload(file) ==
    /\ IF file = NoFile
       THEN /\ error' = ""
            /\ UNCHANGED readers
       ELSE IF IsAcceptedFile(file)
       THEN /\ Len(readers) < MaxUploads
            /\ error' = ""
            /\ readers' = Append(readers, NewReader(file))
       ELSE /\ error' = MsgUnsupported
            /\ UNCHANGED readers
    /\ UNCHANGED << variant, timeZone, selectedImage, format, photoText,
                    photoDate, exports, downloads >>
    /\ Commit

\* a loadend handler that also resets the caption for the new picture
ReaderLoadEndResetting(i) ==
    /\ i \in 1..Len(readers)
    /\ readers[i].state = "loading"
    /\ selectedImage' = DataURL(readers[i].file)
    /\ photoText' = << >>
    /\ readers' = Settle(i, "done")
    /\ UNCHANGED << variant, timeZone, error, format, photoDate, exports,
                    downloads >>
    /\ Commit

\* reader.onloadend after a successful read: reader.result is the data URL
ReaderLoadEnd(i) ==
    /\ i \in 1..Len(readers)
    /\ readers[i].state = "loading"
    /\ selectedImage' = DataURL(readers[i].file)
    /\ readers' = Settle(i, "done")
    /\ UNCHANGED << variant, timeZone, error, format, photoText, photoDate,
                    exports, downloads >>
    /\ Commit

\* a failed read that starts the read of the same file again by itself
ReaderErrorRetrying(i) ==
    /\ i \in 1..Len(readers)
    /\ readers[i].state = "loading"
    /\ error' = MsgReadFailed
    /\ selectedImage' = NULL
    /\ readers' = IF Len(readers) < MaxUploads
                  THEN Append(Settle(i, "error"),
                              [ file |-> readers[i].file, state |-> "loading",
                                pending |-> Loading \ {i} ])
                  ELSE Settle(i, "error")
    /\ UNCHANGED << variant, timeZone, format, photoText, photoDate,
                    exports, downloads >>
    /\ Commit

\* a failed read fires error and then loadend in the same task:
\* reader.onerror sets the message, reader.onloadend stores reader.result,
\* which is null after an error
ReaderError(i) ==
    /\ i \in 1..Len(readers)
    /\ readers[i].state = "loading"
    /\ error' = MsgReadFailed
    /\ selectedImage' = NULL
    /\ readers' = Settle(i, "error")
    /\ UNCHANGED << variant, timeZone, format, photoText, photoDate,
                    exports, downloads >>
    /\ Commit

(***************************************************************************)
(* handleTextChange, handleDateChange, the format buttons                  *)
(***************************************************************************)
\* a caption handler that reports an over-long candidate in the error box
handleTextChangeReporting(text) ==
    /\ IF Len(text) <= MaxTextLength
       THEN /\ photoText' = text
            /\ UNCHANGED error
       ELSE /\ error' = "Caption is too long."
            /\ UNCHANGED photoText
    /\ UNCHANGED << variant, timeZone, selectedImage, format, photoDate,
                    readers, exports, downloads >>
    /\ Commit

\* the caption handler with `<` for `<=`: a caption of exactly 50 is dropped
handleTextChangeStrict(text) ==
    /\ IF Len(text) < MaxTextLength
       THEN photoText' = text
       ELSE UNCHANGED photoText
    /\ UNCHANGED << variant, timeZone, selectedImage, error, format,
                    photoDate, readers, exports, downloads >>
    /\ Commit

handleTextChange(text) ==
    /\ IF Len(text) <= MaxTextLength
       THEN photoText' = text
       ELSE UNCHANGED photoText
    /\ UNCHANGED << variant, timeZone, selectedImage, error, format,
                    photoDate, readers, exports, downloads >>
    /\ Commit

handleDateChange(date) ==
    /\ IF date # EmptyValue
       THEN photoDate' = toLocaleDateString(ParseDate(date, timeZone), timeZone)
       ELSE photoDate' = ""
    /\ UNCHANGED << variant, timeZone, selectedImage, error, format,
                    photoText, readers, exports, downloads >>
    /\ Commit

\* a format button that also drops the loaded image
setFormatResetting(f) ==
    /\ format' = f
    /\ selectedImage' = NULL
    /\ UNCHANGED << variant, timeZone, error, photoText, photoDate, readers,
                    exports, downloads >>
    /\ Commit

\* onClick of the "Instax Mini" / "Instax Wide" button
setFormat(f) ==
    /\ format' = f
    /\ UNCHANGED << variant, timeZone, selectedImage, error, photoText,
                    photoDate, readers, exports, downloads >>
    /\ Commit

(***************************************************************************)
(* captureFrame (full variant only)                                        *)
(***************************************************************************)
\* document.querySelector('.instax-frame')
QueryInstaxFrame ==
    IF dom.frame # NULL /\ dom.frame.instaxFrame THEN dom.frame ELSE NULL

\* `instax-${format}-${Date.now()}.png`
FileName(f, millis) == "instax-" \o f \o "-" \o millis \o ".png"

RemoveAt(seq, i) == SubSeq(seq, 1, i - 1) \o SubSeq(seq, i + 1, Len(seq))

\* captureFrame up to its await: the call of html2canvas.  `format` is the
\* value of the render whose button was clicked.
captureFrame ==
    /\ IF QueryInstaxFrame = NULL
       THEN UNCHANGED exports
       ELSE /\ Len(exports) + Len(downloads) < MaxExports
            /\ exports' = Append(exports, [format |-> format])
    /\ UNCHANGED << variant, timeZone, selectedImage, error, format,
                    photoText, photoDate, readers, downloads >>
    /\ Commit

\* onClick of the Save Photo button, which exists only while it is rendered
SavePhotoClick ==
    /\ dom.saveButton
    /\ captureFrame

\* a capture that names the file after the format selected at delivery
CaptureResolvedCurrentFormat(i) ==
    /\ i \in 1..Len(exports)
    /\ \E millis \in ClockValues :
          downloads' = Append(downloads, FileName(format, millis))
    /\ exports' = RemoveAt(exports, i)
    /\ UNCHANGED << variant, timeZone, selectedImage, error, format,
                    photoText, photoDate, readers >>
    /\ Commit

\* html2canvas resolved and toDataURL returned: link.click()
CaptureResolved(i) ==
    /\ i \in 1..Len(exports)
    /\ \E millis \in ClockValues :
          downloads' = Append(downloads, FileName(exports[i].format, millis))
    /\ exports' = RemoveAt(exports, i)
    /\ UNCHANGED << variant, timeZone, selectedImage, error, format,
                    photoText, photoDate, readers >>
    /\ Commit

\* a catch that is reached after link.click(): the file is delivered anyway
CaptureFailedAfterClick(i) ==
    /\ i \in 1..Len(exports)
    /\ error' = MsgSaveFailed
    /\ \E millis \in ClockValues :
          downloads' = Append(downloads, FileName(exports[i].format, millis))
    /\ exports' = RemoveAt(exports, i)
    /\ UNCHANGED << variant, timeZone, selectedImage, format, photoText,
                    photoDate, readers >>
    /\ Commit

\* html2canvas rejected or toDataURL threw: the catch of captureFrame
CaptureFailed(i) ==
    /\ i \in 1..Len(exports)
    /\ error' = MsgSaveFailed
    /\ exports' = RemoveAt(exports, i)
    /\ UNCHANGED << variant, timeZone, selectedImage, format, photoText,
                    photoDate, readers, downloads >>
    /\ Commit

(***************************************************************************)
(* Specifications                                                          *)
(***************************************************************************)
\* the state after the first render, in time zone set tzs
InitIn(tzs) ==
    /\ variant \in Variants
    /\ timeZone \in tzs
    /\ selectedImage = NULL
    /\ error = ""
    /\ format = "mini"
    /\ photoText = << >>
    /\ photoDate = ""
    /\ readers = << >>
    /\ exports = << >>
    /\ downloads = << >>
    /\ dom = Render(variant, selectedImage, error, format, photoText, photoDate)

Init == InitIn(AppTimeZones)

UploadEvent == \E file \in AppFiles \cup {NoFile} : handleImageUpload(file)

LoadEndEvent == \E i \in 1..Len(readers) : ReaderLoadEnd(i)

ReadErrorEvent == \E i \in 1..Len(readers) : ReaderError(i)

TextEvent == \E text \in AppTexts : handleTextChange(text)

DateEvent == \E date \in AppDates \cup {EmptyValue} : handleDateChange(date)

FormatEvent == \E f \in Formats : setFormat(f)

CaptureResolvedEvent == \E i \in 1..Len(exports) : CaptureResolved(i)

CaptureFailedEvent == \E i \in 1..Len(exports) : CaptureFailed(i)

Next ==
    \/ UploadEvent
    \/ LoadEndEvent
    \/ ReadErrorEvent
    \/ TextEvent
    \/ DateEvent
    \/ FormatEvent
    \/ SavePhotoClick
    \/ CaptureResolvedEvent
    \/ CaptureFailedEvent

Spec == Init /\ [][Next]_vars

\* The event loop runs every callback that is ready: the browser delivers the
\* loadend (or error) of each read and html2canvas settles each capture.
ReaderFairness ==
    \A i \in 1..MaxUploads : WF_vars(ReaderLoadEnd(i) \/ ReaderError(i))

CaptureFairness ==
    \A i \in 1..MaxExports : WF_vars(CaptureResolved(i) \/ CaptureFailed(i))

FairSpec == Init /\ [][Next]_vars /\ ReaderFairness /\ CaptureFairness

(***************************************************************************)
(* The upload path alone, over every combination of file type and name     *)
(***************************************************************************)
UploadAnyEvent == \E file \in AllFiles \cup {NoFile} : handleImageUpload(file)

NextUpload ==
    \/ UploadAnyEvent
    \/ LoadEndEvent
    \/ ReadErrorEvent

SpecUpload == Init /\ [][NextUpload]_vars

(***************************************************************************)
(* The caption input alone, over candidates of every length                *)
(***************************************************************************)
TextAnyEvent == \E text \in AllTexts : handleTextChange(text)

NextText ==
    \/ TextAnyEvent
    \/ FormatEvent

SpecText == Init /\ [][NextText]_vars

(***************************************************************************)
(* The date input alone, over calendar dates and time zones                *)
(***************************************************************************)
InitDate == InitIn(AllTimeZones)

DateAnyEvent == \E date \in AllDates \cup {EmptyValue} : handleDateChange(date)

NextDate ==
    \/ DateAnyEvent
    \/ FormatEvent

SpecDate == InitDate /\ [][NextDate]_vars

(***************************************************************************)
(* Properties                                                              *)
(***************************************************************************)

\* C1: for two accepted uploads A then B, B started while A's read was still
\* in flight and every other read settled before B started, once both reads
\* have ended successfully the loaded image is B's data URL, whichever of
\* the two ended last.
C1_LatestUploadWins ==
    \A a, b \in 1..Len(readers) :
        ( /\ a < b
          /\ b = Len(readers)
          /\ readers[b].pending = {a}
          /\ readers[a].state = "done"
          /\ readers[b].state = "done" )
        => selectedImage = DataURL(readers[b].file)

\* C2: a failed read sets a message and leaves the loaded image as it was.
C2_FailedReadKeepsImage ==
    [][ \A i \in 1..Len(readers) :
            ReaderError(i) => (error' # "" /\ selectedImage' = selectedImage) ]_vars

\* the file test as the claim words it, character by character
\* ".", "h" or "H", "e" or "E", "i" or "I", "c" or "C"
HeicAnyCase == << {46}, {104, 72}, {101, 69}, {105, 73}, {99, 67} >>

HasImageType(file) ==
    /\ Len(file.type) >= 6
    /\ \A k \in 1..6 : file.type[k] = ImagePrefix[k]

HasHeicName(file) ==
    /\ Len(file.name) >= 5
    /\ \A k \in 1..5 : file.name[Len(file.name) - 5 + k] \in HeicAnyCase[k]

\* C3: an upload of a file whose type does not begin with "image/" and whose
\* name does not end in ".heic" (in any case) leaves the loaded image alone,
\* starts no read and leaves the unsupported-type message; an upload of any
\* other file is accepted and starts a read of that file.
C3_UnsupportedRejected ==
    /\ [](\A file \in AllFiles :
            IF HasImageType(file) \/ HasHeicName(file)
            THEN Len(readers) < MaxUploads =>
                     ENABLED ( /\ handleImageUpload(file)
                               /\ readers' = Append(readers, NewReader(file)) )
            ELSE ENABLED (handleImageUpload(file) /\ error' = MsgUnsupported))
    /\ [][ \A file \in AllFiles :
              handleImageUpload(file) =>
                  IF HasImageType(file) \/ HasHeicName(file)
                  THEN /\ Len(readers') = Len(readers) + 1
                       /\ readers'[Len(readers')].file = file
                       /\ readers'[Len(readers')].state = "loading"
                       /\ selectedImage' = selectedImage
                  ELSE /\ selectedImage' = selectedImage
                       /\ readers' = readers
                       /\ error' = MsgUnsupported ]_vars

\* C3 witness: a file was rejected while an image was loaded and another
\* read was in flight
C3_Witness ==
    /\ error = MsgUnsupported
    /\ selectedImage # NULL
    /\ Loading # {}

\* C4: when a read ends successfully the loaded image is that upload's data
\* URL and the error message is empty.
C4_SuccessClearsError ==
    [][ \A i \in 1..Len(readers) :
            ReaderLoadEnd(i) =>
                (selectedImage' = DataURL(readers[i].file) /\ error' = "") ]_vars

\* C5: the caption never exceeds 50 characters; in every state, typing a
\* candidate of at most 50 characters stores exactly that candidate; a
\* longer candidate leaves the caption as it was; neither sets an error.
C5_CaptionCap ==
    /\ [](Len(photoText) <= 50)
    /\ [](\A text \in AllTexts :
            Len(text) <= 50 =>
                ENABLED (handleTextChange(text) /\ photoText' = text))
    /\ [][ \A text \in AllTexts :
              handleTextChange(text) =>
                  /\ photoText' = (IF Len(text) <= 50 THEN text ELSE photoText)
                  /\ error' = error ]_vars

\* C5 witness: a caption of exactly 50 characters is stored
C5_Witness == Len(photoText) = 50

\* the geometry the frame was rendered with
RenderedGeometry ==
    [ frameWidth  |-> dom.frame.width,
      aspectRatio |-> dom.frame.aspectRatio,
      stripHeight |-> dom.frame.stripHeight ]

\* C6 as stated: the rendered geometry is 54:86 / 320 / 40 for mini and
\* 99:62 / 400 / 48 for wide, in both variants of the component.
C6_SameGeometryInBothVariants ==
    dom.frame # NULL =>
        RenderedGeometry =
            IF format = "mini"
            THEN [frameWidth |-> 320, aspectRatio |-> "54/86", stripHeight |-> "40"]
            ELSE [frameWidth |-> 400, aspectRatio |-> "99/62", stripHeight |-> "48"]

\* C6 amended: the rendered geometry depends on the format and the variant
\* only; wide is 99:62 / 400 / 48 in both variants, mini is 320 wide with a
\* strip of 40 in both, with aspect ratio 54:86 in the full component and
\* 62:46 in src/app/page.js.
C6_GeometryPerVariant ==
    dom.frame # NULL =>
        RenderedGeometry =
            IF format = "wide"
            THEN [frameWidth |-> 400, aspectRatio |-> "99/62", stripHeight |-> "48"]
            ELSE IF variant = "full"
            THEN [frameWidth |-> 320, aspectRatio |-> "54/86", stripHeight |-> "40"]
            ELSE [frameWidth |-> 320, aspectRatio |-> "62/46", stripHeight |-> "40"]

\* C6 witness: the page.js variant renders a wide frame after a mini one was
\* shown (an image is loaded and the format was toggled)
C6_Witness ==
    /\ variant = "basic"
    /\ dom.frame # NULL
    /\ format = "wide"

\* C7: a failed export sets the failed-to-save message, delivers no file,
\* leaves the image, the format, the caption and the date as they were, and
\* leaves the Save Photo button in place while an image is loaded.
C7_ExportFailure ==
    [][ \A i \in 1..Len(exports) :
            CaptureFailed(i) =>
                /\ error' = MsgSaveFailed
                /\ downloads' = downloads
                /\ UNCHANGED << selectedImage, format, photoText, photoDate >>
                /\ (selectedImage # NULL => dom'.saveButton)
                /\ Len(exports') = Len(exports) - 1 ]_vars

\* C7 witness: an export failed and MaxExports files were delivered all the
\* same, so one of them was started after the failure
C7_Witness ==
    /\ error = MsgSaveFailed
    /\ Len(downloads) = MaxExports
    /\ selectedImage # NULL

\* C8: while no image is loaded there is no Save Photo button and no
\* .instax-frame element for captureFrame to find, and every export is
\* started from a state with an image loaded.
C8_NoExportWithoutImage ==
    /\ [](selectedImage = NULL => (~dom.saveButton /\ QueryInstaxFrame = NULL))
    /\ [][Len(exports') > Len(exports) => selectedImage # NULL]_vars

\* C8 witness: the image is gone again after a file was exported
C8_Witness ==
    /\ variant = "full"
    /\ selectedImage = NULL
    /\ Len(downloads) > 0

\* C9: a date input y-m-d is stored as "<Mon> <d>, <y>" of that same day in
\* any time zone, and an empty input as the empty string.
C9_DateKeepsDay ==
    [][ /\ \A date \in AllDates :
              handleDateChange(date) => photoDate' = FormatEnUS(date)
        /\ handleDateChange(EmptyValue) => photoDate' = "" ]_vars

\* C10: a format button sets the format and leaves the image, the reads in
\* flight, the caption, the date and the error as they were; the format is
\* always mini or wide.
C10_FormatOnly ==
    /\ [](format \in {"mini", "wide"})
    /\ [](\A f \in {"mini", "wide"} : ENABLED (setFormat(f) /\ format' = f))
    /\ [][ \A f \in Formats :
              setFormat(f) =>
                  /\ format' = f
                  /\ UNCHANGED << selectedImage, readers, photoText, photoDate,
                                  error >> ]_vars

\* C10 witness: the format was changed with an image loaded, a read in
\* flight, a caption, a date and an error message all present
C10_Witness ==
    /\ format = "wide"
    /\ selectedImage # NULL
    /\ Loading # {}
    /\ photoText # << >>
    /\ photoDate # ""
    /\ error # ""


\* an upload of a file of neither an image/ type nor a .heic name
RejectedUploadStep ==
    \E file \in AppFiles :
        /\ ~(HasImageType(file) \/ HasHeicName(file))
        /\ handleImageUpload(file)

\* any step of an upload (the event, the end of a read, a failed read) or of
\* an export that settles
OutcomeStep ==
    \/ \E file \in AppFiles \cup {NoFile} : handleImageUpload(file)
    \/ \E i \in 1..Len(readers) : ReaderLoadEnd(i) \/ ReaderError(i)
    \/ \E i \in 1..Len(exports) : CaptureResolved(i) \/ CaptureFailed(i)

\* C11: no upload outcome and no export outcome changes the caption, the
\* date or the format, and a rejected upload or a failed export does not
\* change the loaded image.
C11_OutcomesKeepCaption ==
    /\ [][UNCHANGED << photoText, photoDate, format >> \/ ~OutcomeStep]_vars
    /\ [][ selectedImage' = selectedImage
            \/ ~(RejectedUploadStep \/ \E i \in 1..Len(exports) : CaptureFailed(i)) ]_vars

\* C11 witness: the caption, date and format edits are all in effect after a
\* read has ended, a file was delivered and an export failed
C11_Witness ==
    /\ photoText = Tokyo2024
    /\ photoDate # ""
    /\ format = "wide"
    /\ \E i \in 1..Len(readers) : readers[i].state = "done"
    /\ Len(downloads) > 0
    /\ error = MsgSaveFailed


\* C12: at most one export is in flight at any time.
C12_OneExportInFlight == Len(exports) <= 1


\* the message an upload event of this file may leave, as the claim has it:
\* none, unless this very attempt is rejected
MessageAfterUpload(file) ==
    IF file = NoFile THEN ""
    ELSE IF HasImageType(file) \/ HasHeicName(file) THEN ""
    ELSE MsgUnsupported

\* C13: every upload event, with or without a file and whatever its type,
\* empties the error message first: after the event the message is empty
\* unless this attempt was rejected, whatever message was shown before.
C13_UploadClearsError ==
    /\ [](ENABLED (handleImageUpload(NoFile) /\ error' = ""))
    /\ [](\A file \in AppFiles :
            (Len(readers) < MaxUploads \/ MessageAfterUpload(file) # "") =>
                ENABLED (handleImageUpload(file) /\ error' = MessageAfterUpload(file)))
    /\ [][ \A file \in AppFiles \cup {NoFile} :
              handleImageUpload(file) => error' = MessageAfterUpload(file) ]_vars

\* C13 witness: the message of a failed read is gone after a later upload
\* event
C13_Witness ==
    /\ error = ""
    /\ \E i \in 1..Len(readers) : readers[i].state = "error"


\* a step that puts a message into the error box or replaces the one shown
ErrorWritten == error' # error /\ error' # ""

\* the rejection of an upload or the failed read of one
UploadFailureStep ==
    \/ \E file \in AppFiles : handleImageUpload(file) /\ error' = MsgUnsupported
    \/ \E i \in 1..Len(readers) : ReaderError(i) /\ error' = MsgReadFailed

\* the catch of captureFrame
ExportFailureStep ==
    \E i \in 1..Len(exports) : CaptureFailed(i) /\ error' = MsgSaveFailed

\* C14 as stated: only the rejection or the failed read of an upload writes
\* a message.
C14_OnlyUploadsSetError == [][ErrorWritten => UploadFailureStep]_vars

\* C14 amended: only the rejection or the failed read of an upload, or a
\* failed export, writes a message; caption, date and format edits, reads
\* that end successfully and exports that deliver a file never do.
C14_OnlyFailuresSetError ==
    [][ErrorWritten => (UploadFailureStep \/ ExportFailureStep)]_vars

\* C14 witness: the message of a failed export is shown
C14_Witness == error = MsgSaveFailed


\* C15: the frame and, with it, the export trigger are rendered in exactly
\* the states with an image loaded.
C15_FrameAndTriggerIffImage ==
    /\ dom.frame # NULL <=> selectedImage # NULL
    /\ dom.saveButton <=> selectedImage # NULL


\* the file names the claim allows for an export triggered under format f
NamesFor(f) ==
    { "instax-" \o f \o "-" \o millis \o ".png" : millis \in ClockValues }

\* C17: an export carries the format selected when it was triggered, a
\* format toggle leaves the exports in flight as they are, and the file an
\* export delivers is named instax-{f}-{millis}.png for the format f of its
\* trigger, whatever format is selected at delivery.
C17_NameFromTriggerFormat ==
    /\ [][ (SavePhotoClick /\ exports' # exports)
              => /\ Len(exports') = Len(exports) + 1
                 /\ SubSeq(exports', 1, Len(exports)) = exports
                 /\ exports'[Len(exports')].format = format ]_vars
    /\ [][ (\E f \in Formats : setFormat(f))
              => (exports' = exports /\ downloads' = downloads) ]_vars
    /\ [][ \A i \in 1..Len(exports) :
              CaptureResolved(i) =>
                  /\ Len(downloads') = Len(downloads) + 1
                  /\ SubSeq(downloads', 1, Len(downloads)) = downloads
                  /\ downloads'[Len(downloads')] \in NamesFor(exports[i].format) ]_vars

\* C17 witness: a file named for mini was delivered, and the format is wide
\* while an export triggered under mini is still in flight
C17_Witness ==
    /\ Len(downloads) > 0
    /\ downloads[Len(downloads)] = "instax-mini-1793280091999.png"
    /\ format = "wide"
    /\ Len(exports) > 0
    /\ exports[1].format = "mini"


\* one of the first k captures in flight settles
SettleAmongFirst(k) ==
    \E i \in 1..k : CaptureResolved(i) \/ CaptureFailed(i)

\* Every read in flight ends.  Every capture in flight settles: a capture
\* only moves towards the front of `exports`, and for every k either there
\* are again and again fewer than k captures in flight or again and again
\* one of the first k settles, so no capture stays at a position for ever.
EverySettleHappens ==
    /\ \A i \in 1..MaxUploads :
          (i \in Loading) ~> (i <= Len(readers) /\ readers[i].state # "loading")
    /\ \A k \in 1..MaxExports :
          []<>(Len(exports) < k) \/ []<><<SettleAmongFirst(k)>>_vars

\* no step removes a read or a capture other than by settling it: a reader
\* keeps its file, leaves "loading" only with its result delivered, and a
\* settled reader never changes; a capture leaves only with a file or with
\* the failed-to-save message
NoCancellation ==
    [][ /\ Len(readers') >= Len(readers)
        /\ \A i \in 1..Len(readers) :
              /\ readers'[i].file = readers[i].file
              /\ readers[i].state # "loading" => readers'[i] = readers[i]
              /\ readers'[i].state # readers[i].state =>
                    \/ (readers'[i].state = "done"
                            /\ selectedImage' = DataURL(readers[i].file))
                    \/ (readers'[i].state = "error" /\ error' = MsgReadFailed)
        /\ Len(exports') < Len(exports) =>
              /\ Len(exports') = Len(exports) - 1
              /\ (Len(downloads') = Len(downloads) + 1 \/ error' = MsgSaveFailed)
      ]_vars

\* a read is started by an upload event only and a capture by a click only
NoAutomaticRetry ==
    /\ [][ Len(readers') > Len(readers)
              => \E file \in AppFiles : handleImageUpload(file) ]_vars
    /\ [][Len(exports') > Len(exports) => SavePhotoClick]_vars

\* with nothing in flight no callback is enabled: only user events can act
Quiescent ==
    (Loading = {} /\ exports = << >>) =>
        ~ENABLED (LoadEndEvent \/ ReadErrorEvent \/ CaptureResolvedEvent
                    \/ CaptureFailedEvent)

\* C16: under fair scheduling every read and every capture in flight
\* eventually settles and none is cancelled by a later event; no read or
\* capture is started except by an upload event or a click, and once
\* nothing is in flight nothing happens until a user event.
C16_SettleNoCancelNoRetry ==
    /\ EverySettleHappens
    /\ NoCancellation
    /\ NoAutomaticRetry
    /\ []Quiescent

\* C16 witness: a read has failed, nothing is in flight and no new read was
\* started although one more could be
C16_Witness ==
    /\ \E i \in 1..Len(readers) : readers[i].state = "error"
    /\ error = MsgReadFailed
    /\ Loading = {}
    /\ exports = << >>
    /\ Len(readers) < MaxUploads

=============================================================================
